---- MODULE Spec2Model ----
(***************************************************************************)
(* m_malloc: explicit free list allocator on top of sbrk (src/m_malloc.c). *)
(*                                                                         *)
(* The machine is a scaled GNU/Linux target: bytes of ByteBits bits, a     *)
(* size_t and a pointer of WordBits bits, stored little-endian in          *)
(* HEADER_SIZE bytes.  As on x86-64, offsetof(Header, nextp) is one word   *)
(* and _Alignof(max_align_t) is two words, so HEADER_OFFSET is one word    *)
(* and break residues below, at and above HEADER_OFFSET all exist.  All    *)
(* size_t and pointer arithmetic is modulo 2^WordBits.                     *)
(*                                                                         *)
(* Memory is a flat array of bytes: the static `head` and the heap above   *)
(* the initial program break.  Block headers, free list links and client   *)
(* payloads all live in that array, so the link field really aliases the   *)
(* first payload bytes.                                                    *)
(***************************************************************************)
EXTENDS Integers, FiniteSets, Sequences, TLC

\* ------------------------------------------------------------------------
\* Platform
\* ------------------------------------------------------------------------
ByteBits == 4
WordBits == 8

Byte == 2 ^ ByteBits          \* number of values of one byte
Word == 2 ^ WordBits          \* SIZE_MAX + 1, also the size of the address space
SIZE_MAX == Word - 1
Sizes == 0 .. SIZE_MAX

NULL == 0

\* most restrictive alignment
ALIGNMENT == 4
ALIGNMENT_MASK == ALIGNMENT - 1

\* offsetof(Header, nextp): the size_t `data` comes first
HEADER_SIZE == WordBits \div ByteBits
HEADER_OFFSET == ALIGNMENT - HEADER_SIZE

ALLOC_FLAG == 1

\* size_t arithmetic
Wrap(x) == x % Word

\* x & ~ALIGNMENT_MASK
AlignDown(x) == x - (x % ALIGNMENT)

GET_ALIGNED_SIZE(size) == AlignDown(Wrap(HEADER_SIZE + size + ALIGNMENT_MASK))

GET_ALIGNED_HEADER(size) == Wrap(GET_ALIGNED_SIZE(size) - HEADER_SIZE)

\* ------------------------------------------------------------------------
\* Address space
\* ------------------------------------------------------------------------
\* address of the static `head`
HeadAddr == 16
\* lowest initial program break
HeapStart == 64
\* the break cannot be raised above HeapStart + HeapMax
HeapMax == 28
HeapLimit == HeapStart + HeapMax
\* bytes above the highest break that may still lie in a mapped page
PageSlack == 8
MemTop == HeapLimit + PageSlack

HeadCells == HeadAddr .. (HeadAddr + 2 * HEADER_SIZE - 1)
HeapCells == HeapStart .. (MemTop - 1)
Cells == HeadCells \cup HeapCells

\* the bytes [a, a + n) of the address space
Range(a, n) == { Wrap(a + i) : i \in 0 .. (n - 1) }

Min(a, b) == IF a < b THEN a ELSE b

\* F(v), with v evaluated once
Bind(v, F(_)) == CHOOSE r \in { F(x) : x \in {v} } : TRUE

\* ------------------------------------------------------------------------
\* Machine state threaded through one call: memory, program break, the
\* `initialized` flag, and how the call ends (st).  `base` is the initial
\* break.  `grant` and `fwd` are the environment's choices for this call:
\* whether sbrk is willing to grow the heap, and the direction in which an
\* overlapping memcpy happens to copy.  The call records what it depended
\* on: `past` when it touched bytes at or above the break (mapped only if
\* the break is not at the end of its page), `asked` when it asked sbrk to
\* grow the heap, `overlap` when it ran memcpy on overlapping areas; and
\* `fresh` when sbrk granted it a request.  For the observer it also keeps
\* the requests sbrk granted with the blocks built from them (made) and the
\* lengths memcpy was called with (copied).  `check` is the value of the
\* CHECK_HEAP macro the allocator was built with.
\* ------------------------------------------------------------------------
Machine(mem_, brk_, init_, base_, grant_, fwd_) ==
    [mem |-> mem_, brk |-> brk_, initialized |-> init_, st |-> "ok",
     base |-> base_, grant |-> grant_, fwd |-> fwd_,
     past |-> FALSE, asked |-> FALSE, overlap |-> FALSE, fresh |-> FALSE,
     made |-> <<>>, copied |-> <<>>, check |-> FALSE]

\* addresses that can be mapped at all: the static head, and the heap from
\* the initial break up to MemTop
CanMap(m, a) == a \in HeadCells \/ (a \in HeapCells /\ a >= m.base)

CanAccess(m, a, n) == \A i \in 0 .. (n - 1) : CanMap(m, Wrap(a + i))

PastBreak(m, a, n) == \E i \in 0 .. (n - 1) : Wrap(a + i) >= m.brk

\* SIGSEGV: the process dies inside the call
Segv(m) == [m EXCEPT !.st = "segv"]
\* the call never returns
Hang(m) == [m EXCEPT !.st = "hang"]

\* fail_if(exp, ...): with CHECK_HEAP the process prints and calls exit(1);
\* without it the macro is empty
fail_if(m, exp) ==
    IF m.check /\ m.st = "ok" /\ exp THEN [m EXCEPT !.st = "exit"] ELSE m

\* an access to the bytes [a, a + n)
Touch(m, a, n) ==
    IF m.st # "ok" THEN m
    ELSE IF ~CanAccess(m, a, n) THEN Segv(m)
    ELSE IF PastBreak(m, a, n) THEN [m EXCEPT !.past = TRUE]
    ELSE m

RECURSIVE LoadBytes(_, _, _)
LoadBytes(m, a, n) ==
    IF n = 0 THEN 0
    ELSE m.mem[a] + Byte * LoadBytes(m, Wrap(a + 1), n - 1)

\* a size_t or pointer read, little-endian
LoadWord(m, a) == LoadBytes(m, a, HEADER_SIZE)

RECURSIVE StoreBytes(_, _, _, _)
StoreBytes(mem_, a, v, n) ==
    IF n = 0 THEN mem_
    ELSE StoreBytes([mem_ EXCEPT ![a] = v % Byte], Wrap(a + 1), v \div Byte, n - 1)

StoreWord(m, a, v) == [m EXCEPT !.mem = StoreBytes(@, a, v, HEADER_SIZE)]

\* ------------------------------------------------------------------------
\* Header codec (the callers have touched the bytes)
\* ------------------------------------------------------------------------
get_size(m, header) == AlignDown(LoadWord(m, header))

set_size(m, header, size) == StoreWord(m, header, size)

is_alloc(m, header) == LoadWord(m, header) % 2

set_alloc(m, header, true) ==
    LET data == LoadWord(m, header) IN
    IF true
    THEN StoreWord(m, header, data - (data % 2) + ALLOC_FLAG)
    ELSE StoreWord(m, header, data - (data % 2))

get_nextp(m, header) == LoadWord(m, Wrap(header + HEADER_SIZE))

set_nextp(m, header, nextp) == StoreWord(m, Wrap(header + HEADER_SIZE), nextp)

get_payload_ptr(header) == Wrap(header + HEADER_SIZE)

\* ------------------------------------------------------------------------
\* sbrk and the free list
\* ------------------------------------------------------------------------
\* sbrk takes an intptr_t
Signed(x) == IF x >= Word \div 2 THEN x - Word ELSE x

\* extend_heap as it would be if a refused request had already moved the break
extend_heap_moved(m, incr) ==
    LET new_brk == m.brk + Signed(incr)
        m1 == IF Signed(incr) > 0 THEN [m EXCEPT !.asked = TRUE] ELSE m
    IN  IF new_brk < m.base \/ new_brk > HeapLimit
        THEN [m |-> m1, ret |-> NULL]
        ELSE IF Signed(incr) > 0 /\ ~m.grant
        THEN [m |-> [m1 EXCEPT !.brk = new_brk], ret |-> NULL]
        ELSE [m |-> [m1 EXCEPT !.brk = new_brk, !.fresh = TRUE], ret |-> m.brk]

\* [m, ret]: ret is the old break, or NULL when sbrk returned (void *)-1
extend_heap(m, incr) ==
    LET new_brk == m.brk + Signed(incr)
        m1 == IF Signed(incr) > 0 THEN [m EXCEPT !.asked = TRUE] ELSE m
    IN  IF new_brk < m.base \/ new_brk > HeapLimit \/ (Signed(incr) > 0 /\ ~m.grant)
        THEN [m |-> m1, ret |-> NULL]
        ELSE [m |-> [m1 EXCEPT !.brk = new_brk, !.fresh = TRUE], ret |-> m.brk]

internal_free(m, header) ==
    Bind(Touch(m, header, 2 * HEADER_SIZE), LAMBDA t :
      IF t.st # "ok" THEN t
      ELSE Bind(set_alloc(t, header, FALSE), LAMBDA m1 :
           \* get_nextp(&head), set_nextp(header, ..), set_nextp(&head, ..)
           Bind(fail_if(m1, is_alloc(m1, HeadAddr) = 1
                              \/ is_alloc(m1, header) = 1), LAMBDA a :
             IF a.st # "ok" THEN a
             ELSE Bind(set_nextp(a, header, get_nextp(a, HeadAddr)), LAMBDA m2 :
                    set_nextp(m2, HeadAddr, header)))))

\* ------------------------------------------------------------------------
\* m_malloc
\* ------------------------------------------------------------------------
\* the block the extension branch builds at the granted address
new_block_addr(old_brk) ==
    IF old_brk % ALIGNMENT # HEADER_OFFSET
    THEN GET_ALIGNED_HEADER(old_brk)
    ELSE old_brk

new_block_size(old_brk, size) ==
    IF old_brk % ALIGNMENT # HEADER_OFFSET
    THEN size
    ELSE Wrap(size + ALIGNMENT)

\* what one granted extension made: the address sbrk returned, the
\* increment asked for, and the block built there
Made(old_brk, size) ==
    [g |-> old_brk, incr |-> Wrap(size + ALIGNMENT),
     addr |-> new_block_addr(old_brk), size |-> new_block_size(old_brk, size)]

\* The for (;;) loop of m_malloc; `size` is the rounded size.  `seen` holds
\* the loop configurations already passed in this call: meeting one again
\* means the loop never ends.  Result: [m, ret].
RECURSIVE malloc_loop(_, _, _, _, _)

\* the branch of the loop body taken when the list is exhausted
malloc_extend(m, curr_block, size, seen) ==
    Bind(extend_heap(m, Wrap(size + ALIGNMENT)), LAMBDA e :
      IF e.ret = NULL THEN [m |-> e.m, ret |-> NULL]
      ELSE Bind(new_block_addr(e.ret), LAMBDA new_block :
           Bind(Touch(e.m, new_block, HEADER_SIZE), LAMBDA t :
           Bind(fail_if(t, new_block_size(e.ret, size) % ALIGNMENT # 0), LAMBDA a :
           Bind(IF a.st = "ok"
                THEN [set_size(a, new_block, new_block_size(e.ret, size))
                        EXCEPT !.made = Append(@, Made(e.ret, size))]
                ELSE a, LAMBDA m1 :
           Bind(internal_free(m1, new_block), LAMBDA m2 :
           Bind(fail_if(m2, is_alloc(m2, curr_block) = 1), LAMBDA m3 :
             IF m3.st # "ok" THEN [m |-> m3, ret |-> NULL]
             ELSE \* continue: the loop increment runs with curr_block = &head
                  Bind(get_nextp(m3, curr_block), LAMBDA next_block :
                    malloc_loop(m3, curr_block, next_block, size, seen)))))))))

\* the rest of the loop body: the fit test, and the increment
malloc_fit(m, prev_block, curr_block, size, seen) ==
    \* both branches read get_nextp(curr_block) first
    Bind(Touch(m, curr_block, 2 * HEADER_SIZE), LAMBDA t0 :
    Bind(fail_if(t0, is_alloc(t0, curr_block) = 1), LAMBDA t :
      IF t.st # "ok" THEN [m |-> t, ret |-> NULL]
      ELSE IF get_size(t, curr_block) >= size
      THEN Bind(Touch(t, prev_block, 2 * HEADER_SIZE), LAMBDA u0 :
           Bind(fail_if(u0, is_alloc(u0, prev_block) = 1), LAMBDA u :
             IF u.st # "ok" THEN [m |-> u, ret |-> NULL]
             ELSE Bind(set_nextp(u, prev_block, get_nextp(u, curr_block)), LAMBDA m1 :
                  Bind(set_alloc(m1, curr_block, TRUE), LAMBDA m2 :
                  Bind(fail_if(m2, is_alloc(m2, curr_block) = 0
                                     \/ get_payload_ptr(curr_block) % ALIGNMENT # 0),
                       LAMBDA m3 :
                    IF m3.st # "ok" THEN [m |-> m3, ret |-> NULL]
                    ELSE [m |-> m3, ret |-> get_payload_ptr(curr_block)])))))
      ELSE Bind(get_nextp(t, curr_block), LAMBDA next_block :
             malloc_loop(t, curr_block, next_block, size, seen))))

malloc_loop(m, prev_block, curr_block, size, seen) ==
    Bind(<<curr_block, m.mem, m.brk>>, LAMBDA here :
      IF here \in seen THEN [m |-> Hang(m), ret |-> NULL]
      ELSE IF curr_block = HeadAddr
      THEN malloc_extend(m, curr_block, size, seen \cup {here})
      ELSE malloc_fit(m, prev_block, curr_block, size, seen \cup {here}))

\* [m, ret]
m_malloc(m, size) ==
    IF size = 0 THEN [m |-> m, ret |-> NULL]
    ELSE Bind(IF ~m.initialized
              THEN [set_nextp(m, HeadAddr, HeadAddr) EXCEPT !.initialized = TRUE]
              ELSE m, LAMBDA m00 :
         Bind(fail_if(m00, is_alloc(m00, HeadAddr) = 1), LAMBDA m0 :
           IF m0.st # "ok" THEN [m |-> m0, ret |-> NULL]
           ELSE Bind(get_nextp(m0, HeadAddr), LAMBDA first :
                  malloc_loop(m0, HeadAddr, first, GET_ALIGNED_SIZE(size), {}))))

\* ------------------------------------------------------------------------
\* m_free, m_calloc, m_realloc
\* ------------------------------------------------------------------------
\* the loop of check_heap(); `seen` as in malloc_loop
RECURSIVE check_heap_loop(_, _, _)
check_heap_loop(m, curr, seen) ==
    IF curr = HeadAddr THEN m
    ELSE IF curr \in seen THEN Hang(m)
    ELSE Bind(Touch(m, curr, 2 * HEADER_SIZE), LAMBDA t0 :
         Bind(fail_if(t0, is_alloc(t0, curr) = 1), LAMBDA t :
           IF t.st # "ok" THEN t
           ELSE check_heap_loop(t, get_nextp(t, curr), seen \cup {curr})))

\* check_heap(): empty without CHECK_HEAP
check_heap(m) ==
    IF ~m.check \/ m.st # "ok" THEN m
    ELSE check_heap_loop(m, get_nextp(m, HeadAddr), {})

m_free(m, ptr) == check_heap(internal_free(m, Wrap(ptr - HEADER_SIZE)))

\* memset(p, c, n)
memset(m, p, c, n) ==
    Bind(Touch(m, p, n), LAMBDA t :
      IF t.st # "ok" THEN t
      ELSE [t EXCEPT !.mem = [a \in Cells |-> IF Wrap(a - p) < n THEN c ELSE @[a]]])

\* memcpy(dst, src, n) one byte at a time, from the low end (m.fwd) or from
\* the high end: the two results a byte copy gives when the areas overlap.
RECURSIVE copy_bytes(_, _, _, _, _)
copy_bytes(mem_, dst, src, n, i) ==
    IF i = n THEN mem_
    ELSE copy_bytes([mem_ EXCEPT ![Wrap(dst + i)] = mem_[Wrap(src + i)]],
                    dst, src, n, i + 1)

RECURSIVE copy_bytes_down(_, _, _, _)
copy_bytes_down(mem_, dst, src, i) ==
    IF i = 0 THEN mem_
    ELSE copy_bytes_down([mem_ EXCEPT ![Wrap(dst + i - 1)] = mem_[Wrap(src + i - 1)]],
                         dst, src, i - 1)

Overlap(dst, src, n) == n > 0 /\ (Wrap(dst - src) < n \/ Wrap(src - dst) < n)

memcpy(m, dst, src, n) ==
    Bind(Touch(m, src, n), LAMBDA s :
    Bind(Touch(s, dst, n), LAMBDA t :
      IF t.st # "ok" THEN t
      ELSE [t EXCEPT !.mem = IF t.fwd THEN copy_bytes(@, dst, src, n, 0)
                                      ELSE copy_bytes_down(@, dst, src, n),
                     !.overlap = @ \/ Overlap(dst, src, n),
                     !.copied = Append(@, n)]))

\* the guard as it would be if it compared the product with one factor
calloc_overflow_by_compare(nmemb, size) ==
    nmemb # 0 /\ Wrap(nmemb * size) < size

\* the overflow guard of m_calloc
calloc_overflow(nmemb, size) ==
    nmemb # 0 /\ Wrap(nmemb * size) \div nmemb # size

\* m_calloc as it would be without the memset
m_calloc_no_memset(m, nmemb, size) ==
    IF calloc_overflow(nmemb, size) THEN [m |-> m, ret |-> NULL]
    ELSE m_malloc(m, Wrap(nmemb * size))

m_calloc(m, nmemb, size) ==
    LET total_size == Wrap(nmemb * size) IN
    IF calloc_overflow(nmemb, size) THEN [m |-> m, ret |-> NULL]
    ELSE Bind(m_malloc(m, total_size), LAMBDA r :
           IF r.ret = NULL THEN r
           ELSE [m |-> memset(r.m, r.ret, 0, total_size), ret |-> r.ret])

\* the number of bytes m_realloc copies
realloc_copy_len(prev_size, size) == IF prev_size < size THEN prev_size ELSE size

\* m_realloc as it would be if it released ptr before looking at the result
\* of m_malloc
m_realloc_free_first(m, ptr, size) ==
    IF ptr = NULL THEN m_malloc(m, size)
    ELSE Bind(Touch(m, Wrap(ptr - HEADER_SIZE), HEADER_SIZE), LAMBDA t :
           IF t.st # "ok" THEN [m |-> t, ret |-> NULL]
           ELSE Bind(get_size(t, Wrap(ptr - HEADER_SIZE)), LAMBDA prev_size :
                Bind(m_malloc(t, size), LAMBDA r :
                  IF r.ret = NULL THEN [m |-> m_free(r.m, ptr), ret |-> NULL]
                  ELSE Bind(memcpy(r.m, r.ret, ptr,
                                   realloc_copy_len(prev_size, size)), LAMBDA m1 :
                         [m |-> m_free(m1, ptr), ret |-> r.ret]))))

m_realloc(m, ptr, size) ==
    IF ptr = NULL THEN m_malloc(m, size)
    ELSE Bind(Touch(m, Wrap(ptr - HEADER_SIZE), HEADER_SIZE), LAMBDA t :
           IF t.st # "ok" THEN [m |-> t, ret |-> NULL]
           ELSE Bind(get_size(t, Wrap(ptr - HEADER_SIZE)), LAMBDA prev_size :
                Bind(m_malloc(t, size), LAMBDA r :
                  IF r.ret = NULL THEN r
                  ELSE Bind(memcpy(r.m, r.ret, ptr,
                                   realloc_copy_len(prev_size, size)), LAMBDA m1 :
                         [m |-> m_free(m1, ptr), ret |-> r.ret]))))

\* ------------------------------------------------------------------------
\* The process: the allocator's state and a client that keeps up to MaxJobs
\* pointers with the sizes it asked for, as the driver's Job table does.
\* ------------------------------------------------------------------------
MaxJobs == 2
Jobs == 1 .. MaxJobs

\* the client makes at most MaxCalls calls and writes
MaxCalls == 4

\* Request sizes the client draws from: 0; two small ones that round to
\* different block sizes; one whose rounded size plus ALIGNMENT is negative
\* as an intptr_t; one whose rounded size plus ALIGNMENT is 0 modulo
\* 2^WordBits; one whose rounding wraps around SIZE_MAX.
ReqSizes == {0, 1, 7, SIZE_MAX - 15, SIZE_MAX - 5, SIZE_MAX}

\* <<nmemb, size>> pairs passed to m_calloc; the last one overflows
CallocArgs == {<<0, 7>>, <<1, 7>>, <<3, 2>>, <<1, SIZE_MAX>>, <<2, Word \div 2 + 1>>}

\* byte values the client writes, and how many bytes of a payload it writes
\* at most in one go
ClientBytes == {6, 9}
MaxFill == 12

VARIABLES
    mem,          \* memory: [Cells -> 0 .. Byte - 1]
    brk,          \* the program break
    start_brk,    \* the initial program break
    initialized,  \* static unsigned initialized
    status,       \* "ok", or how the process ended: "segv", "hang", "exit"
    jobs,         \* the client's table: per job the pointer p (NULL when
                  \* empty), the size asked for, and the call that returned p
    last,         \* the most recent call: see Call
    calls,        \* number of calls and writes made
    blocks,       \* the blocks built by extension so far, oldest first
    check_heap_on \* the build: whether CHECK_HEAP is set

vars == <<mem, brk, start_brk, initialized, status, jobs, last, calls, blocks,
          check_heap_on>>

NoJob == [p |-> NULL, size |-> 0, by |-> "none"]

\* A call as the client sees it: the entry point, the job whose pointer is
\* the argument (NoJob when the argument is NULL or there is none), nmemb and
\* size as passed, the value returned, how many of the bytes asked for were
\* nonzero at the returned address when the call was made (stale), and
\* from the machine m it ran on: whether it got memory from sbrk (fresh),
\* what was made of it (made) and what memcpy was asked to copy (copied).
Call(op, job, nmemb, size, ret, stale, m) ==
    [op |-> op, job |-> job, nmemb |-> nmemb, size |-> size,
     ret |-> ret, stale |-> stale, fresh |-> m.fresh,
     made |-> m.made, copied |-> m.copied]

ZeroMem == [a \in Cells |-> 0]

Init ==
    /\ mem = ZeroMem
    /\ start_brk \in HeapStart .. (HeapStart + ALIGNMENT - 1)
    /\ brk = start_brk
    /\ initialized = FALSE
    /\ status = "ok"
    /\ jobs = [j \in Jobs |-> NoJob]
    /\ last = Call("none", NoJob, 0, 0, NULL, 0,
                   Machine(ZeroMem, start_brk, FALSE, start_brk, TRUE, TRUE))
    /\ calls = 0
    /\ blocks = <<>>
    /\ check_heap_on = FALSE

Now(grant, fwd) ==
    Bind([Machine(mem, brk, initialized, start_brk, grant, fwd)
            EXCEPT !.check = check_heap_on], LAMBDA m : m)

\* The runs of one call over the environment's choices.  A choice is only
\* varied when the run with the other choice consulted it.
MallocRuns(size) ==
    Bind(m_malloc(Now(TRUE, TRUE), size), LAMBDA r :
      {r} \cup (IF r.m.asked THEN {m_malloc(Now(FALSE, TRUE), size)} ELSE {}))

CallocRuns(nmemb, size) ==
    Bind(m_calloc(Now(TRUE, TRUE), nmemb, size), LAMBDA r :
      {r} \cup (IF r.m.asked THEN {m_calloc(Now(FALSE, TRUE), nmemb, size)} ELSE {}))

ReallocRuns(ptr, size) ==
    Bind(m_realloc(Now(TRUE, TRUE), ptr, size), LAMBDA r :
      {r} \cup (IF r.m.asked THEN {m_realloc(Now(FALSE, TRUE), ptr, size)} ELSE {})
          \cup (IF r.m.overlap THEN {m_realloc(Now(TRUE, FALSE), ptr, size)} ELSE {}))

\* a run that touched bytes past the break faults if they are not mapped
Ends(m) == IF m.st \in {"ok", "exit"} /\ m.past THEN {m.st, "segv"} ELSE {m.st}

\* how many of the first n bytes at p are nonzero (bytes outside memory
\* aside)
Stale(p, n) ==
    IF p = NULL THEN 0
    ELSE Cardinality({ i \in 0 .. (Min(n, Word) - 1) :
                         Wrap(p + i) \in Cells /\ mem[Wrap(p + i)] # 0 })

\* What a call leaves behind.  A process that died or hangs has no memory
\* left to look at: its state is reset, only the call is remembered.
Commit(m, end, call, jobs_) ==
    /\ status' = end
    /\ last' = call
    /\ calls' = calls + 1
    /\ UNCHANGED <<start_brk, check_heap_on>>
    /\ IF end = "ok"
       THEN /\ mem' = m.mem
            /\ brk' = m.brk
            /\ initialized' = m.initialized
            /\ jobs' = jobs_
            /\ blocks' = blocks \o m.made
       ELSE /\ mem' = ZeroMem
            /\ brk' = start_brk
            /\ initialized' = FALSE
            /\ jobs' = [j \in Jobs |-> NoJob]
            /\ blocks' = <<>>

\* the client stores a new pointer in its lowest empty job
FirstEmpty(j) == jobs[j].p = NULL /\ \A k \in 1 .. (j - 1) : jobs[k].p # NULL

Keep(j, ret, size, by) ==
    IF ret # NULL
    THEN [jobs EXCEPT ![j] = [p |-> ret, size |-> size, by |-> by]]
    ELSE jobs

Malloc(j, size) ==
    /\ status = "ok"
    /\ FirstEmpty(j)
    /\ \E r \in MallocRuns(size) : \E end \in Ends(r.m) :
         Commit(r.m, end,
                Call("malloc", NoJob, 0, size, r.ret, Stale(r.ret, size), r.m),
                Keep(j, r.ret, size, "malloc"))

Calloc(j, nmemb, size) ==
    /\ status = "ok"
    /\ FirstEmpty(j)
    /\ \E r \in CallocRuns(nmemb, size) : \E end \in Ends(r.m) :
         Commit(r.m, end,
                Call("calloc", NoJob, nmemb, size, r.ret,
                     Stale(r.ret, nmemb * size), r.m),
                Keep(j, r.ret, Wrap(nmemb * size), "calloc"))

\* m_realloc of a pointer the client holds; on NULL the client keeps it
Realloc(j, size) ==
    /\ status = "ok"
    /\ jobs[j].p # NULL
    /\ \E r \in ReallocRuns(jobs[j].p, size) : \E end \in Ends(r.m) :
         Commit(r.m, end,
                Call("realloc", jobs[j], 0, size, r.ret, Stale(r.ret, size), r.m),
                Keep(j, r.ret, size, "realloc"))

\* m_realloc(NULL, size)
ReallocNull(j, size) ==
    /\ status = "ok"
    /\ FirstEmpty(j)
    /\ \E r \in ReallocRuns(NULL, size) : \E end \in Ends(r.m) :
         Commit(r.m, end,
                Call("realloc", NoJob, 0, size, r.ret, Stale(r.ret, size), r.m),
                Keep(j, r.ret, size, "realloc"))

Free(j) ==
    /\ status = "ok"
    /\ jobs[j].p # NULL
    /\ LET m == m_free(Now(TRUE, TRUE), jobs[j].p) IN
       \E end \in Ends(m) :
         Commit(m, end, Call("free", jobs[j], 0, 0, NULL, 0, m),
                [jobs EXCEPT ![j] = NoJob])

\* m_free(NULL)
FreeNull ==
    /\ status = "ok"
    /\ LET m == m_free(Now(TRUE, TRUE), NULL) IN
       \E end \in Ends(m) :
         Commit(m, end, Call("free", NoJob, 0, 0, NULL, 0, m), jobs)

\* the client writes the first bytes of a payload it holds
Fill(j, c) ==
    /\ status = "ok"
    /\ jobs[j].p # NULL
    /\ LET m == memset(Now(TRUE, TRUE), jobs[j].p, c, Min(jobs[j].size, MaxFill)) IN
       \E end \in Ends(m) :
         Commit(m, end, Call("fill", jobs[j], 0, 0, NULL, 0, m), jobs)

Next ==
    \/ calls < MaxCalls /\ \E j \in Jobs, size \in ReqSizes : Malloc(j, size)
    \/ calls < MaxCalls /\ \E j \in Jobs, a \in CallocArgs : Calloc(j, a[1], a[2])
    \/ calls < MaxCalls /\ \E j \in Jobs, size \in ReqSizes : Realloc(j, size)
    \/ calls < MaxCalls /\ \E j \in Jobs, size \in {0, 7} : ReallocNull(j, size)
    \/ calls < MaxCalls /\ \E j \in Jobs : Free(j)
    \/ calls < MaxCalls /\ FreeNull
    \/ calls < MaxCalls /\ \E j \in Jobs, c \in ClientBytes : Fill(j, c)

Spec == Init /\ [][Next]_vars

\* Longer runs of a client that asks for few sizes: a small one, one that
\* rounds to a bigger block, and one whose extension request is negative.
DeepCalls == 6
DeepSizes == {1, 7, SIZE_MAX - 15}

NextDeep ==
    \/ calls < DeepCalls /\ \E j \in Jobs, size \in DeepSizes : Malloc(j, size)
    \/ calls < DeepCalls /\ \E j \in Jobs, size \in DeepSizes : Realloc(j, size)
    \/ calls < DeepCalls /\ \E j \in Jobs : Free(j)
    \/ calls < DeepCalls /\ \E j \in Jobs, c \in ClientBytes : Fill(j, c)

SpecDeep == Init /\ [][NextDeep]_vars

\* m_calloc with every pair of arguments, called on a fresh allocator, after
\* one m_malloc, or after that block was freed again.
NextCalloc ==
    \/ last.op = "none" /\ \E j \in Jobs : Malloc(j, 2 * ALIGNMENT - 1)
    \/ last.op = "malloc" /\ \E j \in Jobs : Free(j)
    \/ last.op # "calloc" /\ \E j \in Jobs, nmemb \in Sizes, size \in Sizes :
                                Calloc(j, nmemb, size)

SpecCalloc == Init /\ [][NextCalloc]_vars

\* The same client on the allocator built with CHECK_HEAP.
InitChecked ==
    /\ mem = ZeroMem
    /\ start_brk \in HeapStart .. (HeapStart + ALIGNMENT - 1)
    /\ brk = start_brk
    /\ initialized = FALSE
    /\ status = "ok"
    /\ jobs = [j \in Jobs |-> NoJob]
    /\ last = Call("none", NoJob, 0, 0, NULL, 0,
                   Machine(ZeroMem, start_brk, FALSE, start_brk, TRUE, TRUE))
    /\ calls = 0
    /\ blocks = <<>>
    /\ check_heap_on = TRUE

SpecChecked == InitChecked /\ [][Next]_vars

\* ------------------------------------------------------------------------
\* Observations of the current state
\* ------------------------------------------------------------------------
\* the memory as the header codec reads it
Cur == [mem |-> mem]

\* a call was made in this step and returned to the client
Returned(op) == calls' # calls /\ status' = "ok" /\ last'.op = op

\* the bytes of the payload at p the client may use, given that it asked for
\* n bytes: those inside the block the header at p - HEADER_SIZE describes
Usable(p, n) ==
    LET header == Wrap(p - HEADER_SIZE) IN
    IF header \in Cells /\ Wrap(header + 1) \in Cells
    THEN { a \in Range(p, Min(n, get_size(Cur, header) - HEADER_SIZE)) : a \in Cells }
    ELSE {}

\* the blocks of the free list in memory mem_, in list order: the walk of
\* check_heap from head.nextp, cut off where it would leave memory or after
\* n blocks
RECURSIVE ListFrom(_, _, _)
ListFrom(mem_, a, n) ==
    IF a = HeadAddr \/ n = 0 \/ ~(Range(a, 2 * HEADER_SIZE) \subseteq Cells)
    THEN <<>>
    ELSE <<a>> \o ListFrom(mem_, get_nextp([mem |-> mem_], a), n - 1)

FreeListOf(mem_) ==
    ListFrom(mem_, get_nextp([mem |-> mem_], HeadAddr), Cardinality(HeapCells))

InFreeList(mem_, header) ==
    \E i \in DOMAIN FreeListOf(mem_) : FreeListOf(mem_)[i] = header

\* ------------------------------------------------------------------------
\* C1: every non-null pointer m_malloc returns is a multiple of ALIGNMENT.
\* ------------------------------------------------------------------------
MallocAligned ==
    (status = "ok" /\ last.op = "malloc" /\ last.ret # NULL)
        => last.ret % ALIGNMENT = 0

\* ------------------------------------------------------------------------
\* C3: behind every non-null pointer m_malloc(size) returns lies a block
\* whose total size is at least HEADER_SIZE + size.
\* ------------------------------------------------------------------------
MallocBlockHoldsSize ==
    (status = "ok" /\ last.op = "malloc" /\ last.ret # NULL)
        => get_size(Cur, Wrap(last.ret - HEADER_SIZE)) >= HEADER_SIZE + last.size

\* ------------------------------------------------------------------------
\* C6: m_free(NULL) returns and changes nothing: not the sentinel head, not
\* a byte of the heap, not the program break.
\* ------------------------------------------------------------------------
FreeNullIsNoOp ==
    [][(calls' # calls /\ last'.op = "free" /\ last'.job.p = NULL)
          => (status' = "ok" /\ mem' = mem /\ brk' = brk
              /\ initialized' = initialized /\ jobs' = jobs)]_vars

\* ------------------------------------------------------------------------
\* C2: a call that returns leaves the payload of every live block other
\* than its own argument as it was, byte for byte.
\* ------------------------------------------------------------------------
LivePayloadsKept ==
    [][(calls' # calls /\ status' = "ok"
        /\ last'.op \in {"malloc", "calloc", "realloc", "free"})
          => \A j \in Jobs :
               (jobs[j].p # NULL /\ jobs[j].p # last'.job.p)
                 => \A a \in Usable(jobs[j].p, jobs[j].size) : mem'[a] = mem[a]]_vars

\* ------------------------------------------------------------------------
\* C4: after a successful m_realloc(p, newSize) of a live p asked for with
\* oldSize, the first min(oldSize, newSize) bytes at the returned pointer
\* are the bytes that were at p before the call.
\* ------------------------------------------------------------------------
ReallocKeepsContent ==
    [][(Returned("realloc") /\ last'.job.p # NULL /\ last'.ret # NULL)
          => \A i \in 0 .. (Min(last'.job.size, last'.size) - 1) :
               (Wrap(last'.job.p + i) \in Cells /\ Wrap(last'.ret + i) \in Cells)
                 => mem'[Wrap(last'.ret + i)] = mem[Wrap(last'.job.p + i)]]_vars

LifoReuse ==
    [][(status = "ok" /\ last.op = "free" /\ last.job.p # NULL
        /\ last.job.by = "malloc"
        /\ Returned("malloc")
        /\ 0 < last'.size /\ last'.size <= last.job.size)
          => last'.ret = last.job.p]_vars

\* ------------------------------------------------------------------------
\* C8: the guard of m_calloc is true exactly when nmemb * size exceeds
\* SIZE_MAX, and then m_calloc returns NULL and changes nothing.
\* ------------------------------------------------------------------------
CallocOverflowGuard ==
    [][(calls' # calls /\ last'.op = "calloc")
          => /\ calloc_overflow(last'.nmemb, last'.size)
                  <=> (last'.nmemb * last'.size > SIZE_MAX)
             /\ (last'.nmemb * last'.size > SIZE_MAX)
                  => /\ status' = "ok" /\ last'.ret = NULL
                     /\ mem' = mem /\ brk' = brk
                     /\ initialized' = initialized /\ jobs' = jobs]_vars

\* m_calloc(2, SIZE_MAX / 2 + 2) has returned NULL to a client that holds
\* a block
CallocOverflowSeen ==
    /\ status = "ok" /\ last.op = "calloc" /\ last.ret = NULL
    /\ last.nmemb = 2 /\ last.size = SIZE_MAX \div 2 + 2
    /\ \E j \in Jobs : jobs[j].p # NULL

\* ------------------------------------------------------------------------
\* C9: after a successful m_calloc(nmemb, size) the first nmemb * size
\* bytes at the returned pointer are zero.
\* ------------------------------------------------------------------------
CallocZeroFilled ==
    (status = "ok" /\ last.op = "calloc" /\ last.ret # NULL)
        => \A i \in 0 .. (last.nmemb * last.size - 1) :
             /\ Wrap(last.ret + i) \in Cells
             /\ mem[Wrap(last.ret + i)] = 0

\* m_calloc has returned a block from the free list in which more bytes
\* than the link field has were nonzero
CallocStaleSeen ==
    /\ status = "ok" /\ last.op = "calloc" /\ last.ret # NULL
    /\ ~last.fresh
    /\ last.stale > HEADER_SIZE

\* ------------------------------------------------------------------------
\* C10: when m_malloc returns NULL the free list, every byte of the heap
\* (so every block header and every live payload), the break and the
\* client's table are as before the call.
\* ------------------------------------------------------------------------
MallocNullChangesNothing ==
    [][(Returned("malloc") /\ last'.ret = NULL)
          => /\ FreeListOf(mem') = FreeListOf(mem)
             /\ \A a \in HeapCells : mem'[a] = mem[a]
             /\ brk' = brk
             /\ jobs' = jobs]_vars

\* m_malloc of a nonzero size has returned NULL while the client holds a
\* block and the free list is not empty
MallocNullSeen ==
    /\ status = "ok" /\ last.op = "malloc" /\ last.ret = NULL /\ last.size > 0
    /\ \E j \in Jobs : jobs[j].p # NULL
    /\ FreeListOf(mem) # <<>>

\* how the walk of the free list from block a ends in memory mem_: back at
\* the head, at a block it has already visited, or outside memory
RECURSIVE WalkEnd(_, _, _)
WalkEnd(mem_, a, seen) ==
    IF a = HeadAddr THEN "head"
    ELSE IF a \in seen THEN "again"
    ELSE IF ~(Range(a, 2 * HEADER_SIZE) \subseteq Cells) THEN "outside"
    ELSE WalkEnd(mem_, get_nextp([mem |-> mem_], a), seen \cup {a})

\* ------------------------------------------------------------------------
\* C11: once the allocator is initialised, following links from the head
\* comes back to the head without visiting a block twice, and no block on
\* the way has its allocation flag set.
\* ------------------------------------------------------------------------
FreeListCircular ==
    (status = "ok" /\ initialized)
        => /\ WalkEnd(mem, get_nextp(Cur, HeadAddr), {}) = "head"
           /\ \A i \in DOMAIN FreeListOf(mem) :
                is_alloc(Cur, FreeListOf(mem)[i]) = 0

\* the jobs that hold the payload pointer of the block at header
Holders(header) == { j \in Jobs : jobs[j].p = get_payload_ptr(header) }

\* the places of the free list at which the block at header stands
ListPlaces(header) ==
    { i \in DOMAIN FreeListOf(mem) : FreeListOf(mem)[i] = header }

\* ------------------------------------------------------------------------
\* C12: every block built by extension is in exactly one place: once on
\* the free list, or held by the client through exactly one pointer.
\* ------------------------------------------------------------------------
BlocksOwnedOnce ==
    status = "ok"
        => \A i \in DOMAIN blocks :
             Cardinality(Holders(blocks[i].addr))
                 + Cardinality(ListPlaces(blocks[i].addr)) = 1

\* the places of the free list whose block has a total size of at least need
Fits(need) ==
    { i \in DOMAIN FreeListOf(mem) : get_size(Cur, FreeListOf(mem)[i]) >= need }

\* the first of a nonempty set of places
First(places) == CHOOSE i \in places : \A k \in places : i <= k

\* the sequence seq without its i-th element
Without(seq, i) == SubSeq(seq, 1, i - 1) \o SubSeq(seq, i + 1, Len(seq))

\* ------------------------------------------------------------------------
\* C13: when a block of the free list is at least as big as the rounded
\* size, an m_malloc that returns has returned the payload of the first
\* such block in list order and asked for no extension, and the free list
\* afterwards is the one before without that block.
\* ------------------------------------------------------------------------
FirstFitTaken ==
    [][(status = "ok" /\ Returned("malloc") /\ last'.size > 0
        /\ Fits(GET_ALIGNED_SIZE(last'.size)) # {})
          => LET i == First(Fits(GET_ALIGNED_SIZE(last'.size))) IN
             /\ last'.ret = get_payload_ptr(FreeListOf(mem)[i])
             /\ last'.made = <<>>
             /\ brk' = brk
             /\ FreeListOf(mem') = Without(FreeListOf(mem), i)]_vars

\* the bytes sbrk granted to the extension b, and the bytes of its block
Granted(b) == { a \in Sizes : b.g <= a /\ a < b.g + Signed(b.incr) }
BlockBytes(b) == { a \in Sizes : b.addr <= a /\ a < b.addr + b.size }

\* ------------------------------------------------------------------------
\* C14: a block built by extension starts at the granted address g and has
\* the size of the whole request when g has residue HEADER_OFFSET, else it
\* starts at the next address with that residue and has the rounded size;
\* either way it lies inside what was granted, and the blocks of different
\* extensions do not overlap.
\* ------------------------------------------------------------------------
ExtensionBlocksApart ==
    status = "ok"
        => /\ \A i \in DOMAIN blocks :
                /\ IF blocks[i].g % ALIGNMENT = HEADER_OFFSET
                   THEN /\ blocks[i].addr = blocks[i].g
                        /\ blocks[i].size = blocks[i].incr
                   ELSE /\ blocks[i].addr \in (blocks[i].g + 1) .. (blocks[i].g + ALIGNMENT - 1)
                        /\ blocks[i].addr % ALIGNMENT = HEADER_OFFSET
                        /\ blocks[i].size = Wrap(blocks[i].incr - ALIGNMENT)
                /\ BlockBytes(blocks[i]) \subseteq Granted(blocks[i])
           /\ \A i, k \in DOMAIN blocks :
                i # k => BlockBytes(blocks[i]) \cap BlockBytes(blocks[k]) = {}

\* ------------------------------------------------------------------------
\* C15: every m_malloc call ends, having built at most one block by
\* extension, and when it built one and returns, it returns that block's
\* payload.
\* ------------------------------------------------------------------------
MallocExtendsOnce ==
    [][(status = "ok" /\ calls' # calls /\ last'.op = "malloc")
          => /\ status' # "hang"
             /\ Len(last'.made) <= 1
             /\ (status' = "ok" /\ last'.made # <<>>)
                  => last'.ret = get_payload_ptr(last'.made[1].addr)]_vars

\* the payload bytes of the block whose payload is p
UsableSize(mem_, p) == get_size([mem |-> mem_], Wrap(p - HEADER_SIZE)) - HEADER_SIZE

\* ------------------------------------------------------------------------
\* C16: a successful m_realloc of a live pointer copies the smaller of the
\* old block's payload size and the new size (as asked, or as the new block
\* provides), and so never more bytes than the old payload holds.
\* ------------------------------------------------------------------------
ReallocCopyWithinOld ==
    [][(status = "ok" /\ Returned("realloc") /\ last'.job.p # NULL
        /\ last'.ret # NULL)
          => /\ Len(last'.copied) = 1
             /\ last'.copied[1] \in
                  { Min(UsableSize(mem, last'.job.p), last'.size),
                    Min(UsableSize(mem, last'.job.p), UsableSize(mem', last'.ret)) }
             /\ last'.copied[1] <= UsableSize(mem, last'.job.p)]_vars

\* the start addresses of the blocks built so far
BlockAddrs == { blocks[i].addr : i \in DOMAIN blocks }

\* ------------------------------------------------------------------------
\* C17: every block built by an extension keeps the start address and the
\* total size it was built with, whatever calls follow, and there are as
\* many blocks as extensions that built one.
\* ------------------------------------------------------------------------
BlocksKeepSize ==
    status = "ok"
        => /\ \A i \in DOMAIN blocks :
                get_size(Cur, blocks[i].addr) = blocks[i].size
           /\ Cardinality(BlockAddrs) = Len(blocks)

\* ------------------------------------------------------------------------
\* C18: a successful m_realloc of a live pointer p returns an address other
\* than p, and right after it p's block is the first one of the free list.
\* ------------------------------------------------------------------------
ReallocNeverInPlace ==
    [][(status = "ok" /\ Returned("realloc") /\ last'.job.p # NULL
        /\ last'.ret # NULL)
          => /\ last'.ret # last'.job.p
             /\ FreeListOf(mem') # <<>>
             /\ FreeListOf(mem')[1] = Wrap(last'.job.p - HEADER_SIZE)]_vars

\* the size a call asked m_malloc for
Requested(call) == IF call.op = "calloc" THEN Wrap(call.nmemb * call.size) ELSE call.size

\* ------------------------------------------------------------------------
\* C19: whatever size is asked for, the increment of an extension, read as a
\* signed value, is positive and larger than the size asked for; so no call
\* lowers the program break, and the break is never below the end of a block.
\* ------------------------------------------------------------------------
IncrementPositive ==
    [][(status = "ok" /\ calls' # calls /\ status' = "ok")
          => /\ \A i \in DOMAIN last'.made :
                  /\ Signed(last'.made[i].incr) > 0
                  /\ Signed(last'.made[i].incr) > Requested(last')
             /\ brk' >= brk
             /\ \A i \in DOMAIN blocks' :
                  blocks'[i].addr + blocks'[i].size <= brk']_vars

\* the allocator call `call`, made now on the allocator built without
\* CHECK_HEAP, with the environment's choices grant and fwd: [m, ret]
RunPlain(call, grant, fwd) ==
    Bind([Now(grant, fwd) EXCEPT !.check = FALSE], LAMBDA m :
      IF call.op = "malloc" THEN m_malloc(m, call.size)
      ELSE IF call.op = "calloc" THEN m_calloc(m, call.nmemb, call.size)
      ELSE IF call.op = "realloc" THEN m_realloc(m, call.job.p, call.size)
      ELSE [m |-> m_free(m, call.job.p), ret |-> NULL])

\* ------------------------------------------------------------------------
\* C20: built with CHECK_HEAP, the allocator never stops on an assertion,
\* and every call ends as it can end in the build without CHECK_HEAP, with
\* the same result and the same free list.
\* ------------------------------------------------------------------------
CheckedBuildAgrees ==
    [][(check_heap_on /\ status = "ok" /\ calls' # calls /\ last'.op # "fill")
          => /\ status' # "exit"
             /\ \E grant \in BOOLEAN, fwd \in BOOLEAN :
                  LET r == RunPlain(last', grant, fwd) IN
                  /\ status' \in Ends(r.m)
                  /\ last'.ret = r.ret
                  /\ status' = "ok" => FreeListOf(mem') = FreeListOf(r.m.mem)]_vars

====
